---- MODULE Spec2Model ----
(***************************************************************************)
(* A model of the boundary-tag heap allocator of mm.c whose free blocks    *)
(* are indexed by a red-black tree embedded in their payload bytes.        *)
(*                                                                         *)
(* Memory is a byte map (address -> 0..255) holding only the bytes that    *)
(* have been written: a byte outside its domain has no defined value.      *)
(* Header/footer words are 4 little-endian bytes, tree pointers are 8      *)
(* little-endian bytes and the colour is one byte, exactly where the C     *)
(* macros put them.  The allocator state is a record                       *)
(*   [mem, root, heap_listp, mem_brk, ev]                                  *)
(* and every C function is an operator from such a record to a record.     *)
(* The field ev is not program state: it collects the names of the        *)
(* branches an operation went through, for the properties to refer to.     *)
(* Request sizes are uint32_t; they are carried as pairs <<hi16, lo16>>    *)
(* because they may exceed the range of the checker's integers.            *)
(***************************************************************************)
EXTENDS Integers, Sequences, FiniteSets, TLC

(***************************************************************************)
(* Constants and macros (mm.c 22-84)                                       *)
(***************************************************************************)
WSIZE == 4
DSIZE == 8
CHUNKSIZE == 4096
OVERHEAD == 8
MINBLOCKSIZE == 6 * DSIZE
RED == 1
BLACK == 0
NULL == 0

\* Address of the static nil_node array (32 bytes), outside the heap.
NIL == 16

\* The provider (memlib): first heap address and the sbrk failure value.
mem_start_brk == 64
SBRK_FAIL == -1

\* Bound of the model: the provider holds 16 bytes plus this many chunks.
MaxHeapChunks == 2
mem_max_addr == mem_start_brk + 4 * WSIZE + MaxHeapChunks * CHUNKSIZE

(***************************************************************************)
(* uint32_t request sizes as pairs <<hi, lo>> of 16-bit halves             *)
(***************************************************************************)
W16 == 2 ^ 16

U32(n) == <<n \div W16, n % W16>>

SIZE_MAX == <<W16 - 1, W16 - 1>>

U32IsSmall(u) == u[1] < W16 \div 2

\* The value of a pair known to be below 2^31.
U32Val(u) == u[1] * W16 + u[2]

\* u <= k and u < k for a pair u and a small non-negative integer k.
U32LeInt(u, k) == U32IsSmall(u) /\ U32Val(u) <= k
U32LtInt(u, k) == U32IsSmall(u) /\ U32Val(u) < k

\* u + k modulo 2^32, for a small non-negative k.
U32Add(u, k) ==
    LET lo == u[2] + k
    IN <<(u[1] + lo \div W16) % W16, lo % W16>>

\* DSIZE * (u / DSIZE) in uint32_t arithmetic.
U32RoundDown8(u) == <<u[1], u[2] - (u[2] % DSIZE)>>

\* Conversion uint32_t -> int at a call of MAX (two's complement).
U32ToInt(u) ==
    IF U32IsSmall(u) THEN U32Val(u) ELSE (u[1] - W16) * W16 + u[2]

\* static inline int MAX(int x, int y)
MAX(x, y) == IF x > y THEN x ELSE y

\* Variant of the size rounding without the final MAX(asize, MINBLOCKSIZE).
AdjustedSizeNoMinimum(size) ==
    LET asize == IF U32LeInt(size, DSIZE)
                 THEN U32(2 * DSIZE)
                 ELSE U32RoundDown8(U32Add(size, DSIZE + (DSIZE - 1)))
    IN U32ToInt(asize)

\* The size rounding of mm_malloc and mm_realloc, ending in MAX(asize, MINBLOCKSIZE).
AdjustedSize(size) ==
    LET asize == IF U32LeInt(size, DSIZE)
                 THEN U32(2 * DSIZE)
                 ELSE U32RoundDown8(U32Add(size, DSIZE + (DSIZE - 1)))
    IN MAX(U32ToInt(asize), MINBLOCKSIZE)

(***************************************************************************)
(* Memory words                                                            *)
(***************************************************************************)
Byte(v, i) == IF i >= 4 THEN 0 ELSE (v \div (256 ^ i)) % 256

\* size | (alloc & 0x1)
PACK(size, alloc) == IF size % 2 = 1 THEN size ELSE size + (alloc % 2)

\* *(uint32_t *)p
GET(m, p) == m[p] + 256 * m[p + 1] + 65536 * m[p + 2] + 16777216 * m[p + 3]

PUT(m, p, val) == [a \in p .. p + 3 |-> Byte(val, a - p)] @@ m

GET_SIZE(m, p) == GET(m, p) - (GET(m, p) % 8)

GET_ALLOC(m, p) == GET(m, p) % 2

HDRP(bp) == bp - WSIZE

FTRP(m, bp) == bp + GET_SIZE(m, HDRP(bp)) - DSIZE

NEXT_BLKP(m, bp) == bp + GET_SIZE(m, bp - WSIZE)

PREV_BLKP(m, bp) == bp - GET_SIZE(m, bp - DSIZE)

\* An 8-byte pointer; every address of the model fits its low word.
GETP(m, p) == CASE GET(m, p + WSIZE) = 0 -> GET(m, p)

PUTP(m, p, val) == [a \in p .. p + 7 |-> Byte(val, a - p)] @@ m

(***************************************************************************)
(* Tree node fields inside a free block's payload (mm.c 71-81)             *)
(***************************************************************************)
PARENT(s, bp) == GETP(s.mem, bp)
LEFT(s, bp) == GETP(s.mem, bp + DSIZE)
RIGHT(s, bp) == GETP(s.mem, bp + 2 * DSIZE)
COLOR(s, bp) == s.mem[bp + 3 * DSIZE]

\* Ghost: the state before a store into the left, right or colour field of
\* bp, marked ("nil_changed") when bp is NIL and the store gives the field
\* another value than the one mm_init gave it.
WatchNil(s, bp, other) ==
    IF bp = NIL /\ other THEN [s EXCEPT !.ev = @ \cup {"nil_changed"}] ELSE s

SET_PARENT(s, bp, v) == [s EXCEPT !.mem = PUTP(@, bp, v)]
SET_LEFT(s, bp, v) == [WatchNil(s, bp, v # NIL) EXCEPT !.mem = PUTP(@, bp + DSIZE, v)]
SET_RIGHT(s, bp, v) == [WatchNil(s, bp, v # NIL) EXCEPT !.mem = PUTP(@, bp + 2 * DSIZE, v)]
SET_COLOR(s, bp, c) ==
    [WatchNil(s, bp, c # BLACK) EXCEPT !.mem = ((bp + 3 * DSIZE) :> (c % 256)) @@ @]
SET_ROOT(s, v) == [s EXCEPT !.root = v]

\* Record that the running operation went through branch e.
Note(s, e) == [s EXCEPT !.ev = @ \cup {e}]

SIZE_OF(s, bp) == GET_SIZE(s.mem, HDRP(bp))

\* Ghost: the state at the entry of a rotation whose pivot child is y,
\* marked ("rotate_nil") when y is NIL.
WatchPivot(s, y) == IF y = NIL THEN Note(s, "rotate_nil") ELSE s

(***************************************************************************)
(* Red-black tree routines (mm.c 359-576)                                  *)
(***************************************************************************)
\* A C function is the composition, in program order, of its statements; a
\* statement that reads the heap it writes is an operator of its own, from
\* the state before it to the state after it.
\* left_rotate: RIGHT(x) = LEFT(y)
LeftRotateMoveSubtree(s, x, y) == SET_RIGHT(s, x, LEFT(s, y))

\* left_rotate: if (LEFT(y) != NIL) PARENT(LEFT(y)) = x
LeftRotateAdoptSubtree(s, x, y) ==
    IF LEFT(s, y) # NIL THEN SET_PARENT(s, LEFT(s, y), x) ELSE s

\* left_rotate: PARENT(y) = PARENT(x)
LeftRotateLiftParent(s, x, y) == SET_PARENT(s, y, PARENT(s, x))

\* left_rotate: y takes the place of x under x's parent (or as root)
LeftRotateReplace(s, x, y) ==
    IF PARENT(s, x) = NIL THEN SET_ROOT(s, y)
    ELSE IF x = LEFT(s, PARENT(s, x)) THEN SET_LEFT(s, PARENT(s, x), y)
    ELSE SET_RIGHT(s, PARENT(s, x), y)

left_rotate(s, x) ==
    LET y == RIGHT(s, x)
    IN SET_PARENT(
           SET_LEFT(
               LeftRotateReplace(
                   LeftRotateLiftParent(
                       LeftRotateAdoptSubtree(
                           LeftRotateMoveSubtree(Note(WatchPivot(s, y), "left_rotate"), x, y), x, y), x, y), x, y),
               y, x),
           x, y)

\* right_rotate: LEFT(x) = RIGHT(y)
RightRotateMoveSubtree(s, x, y) == SET_LEFT(s, x, RIGHT(s, y))

\* right_rotate: if (RIGHT(y) != NIL) PARENT(RIGHT(y)) = x
RightRotateAdoptSubtree(s, x, y) ==
    IF RIGHT(s, y) # NIL THEN SET_PARENT(s, RIGHT(s, y), x) ELSE s

\* right_rotate: PARENT(y) = PARENT(x)
RightRotateLiftParent(s, x, y) == SET_PARENT(s, y, PARENT(s, x))

\* right_rotate: y takes the place of x under x's parent (or as root)
RightRotateReplace(s, x, y) ==
    IF PARENT(s, x) = NIL THEN SET_ROOT(s, y)
    ELSE IF x = RIGHT(s, PARENT(s, x)) THEN SET_RIGHT(s, PARENT(s, x), y)
    ELSE SET_LEFT(s, PARENT(s, x), y)

right_rotate(s, x) ==
    LET y == LEFT(s, x)
    IN SET_PARENT(
           SET_RIGHT(
               RightRotateReplace(
                   RightRotateLiftParent(
                       RightRotateAdoptSubtree(
                           RightRotateMoveSubtree(Note(WatchPivot(s, y), "right_rotate"), x, y), x, y), x, y), x, y),
               y, x),
           x, y)

\* SET_COLOR(PARENT(x), c)
ColorParent(s, x, c) == SET_COLOR(s, PARENT(s, x), c)

\* SET_COLOR(PARENT(PARENT(x)), c)
ColorGrandparent(s, x, c) == SET_COLOR(s, PARENT(s, PARENT(s, x)), c)

\* left_rotate(PARENT(x)), right_rotate(PARENT(x))
LeftRotateParent(s, x) == left_rotate(s, PARENT(s, x))
RightRotateParent(s, x) == right_rotate(s, PARENT(s, x))

\* Variant of LeftRotateGrandparent that rotates at bp itself.
LeftRotateNode(s, bp) == left_rotate(s, bp)

\* left_rotate(PARENT(PARENT(bp))), right_rotate(PARENT(PARENT(bp)))
LeftRotateGrandparent(s, bp) == left_rotate(s, PARENT(s, PARENT(s, bp)))
RightRotateGrandparent(s, bp) == right_rotate(s, PARENT(s, PARENT(s, bp)))

\* rbt_insert_fixup, red uncle: bp = PARENT(PARENT(bp)) after the recolouring
InsertFixupMoveUp(s, bp) ==
    [s |-> Note(s, "insert_recolor"), bp |-> PARENT(s, PARENT(s, bp))]

\* One iteration of the loop of rbt_insert_fixup, parent is a left child.
InsertFixupLeft(s, bp) ==
    LET uncle == RIGHT(s, PARENT(s, PARENT(s, bp)))
        rot == bp = RIGHT(s, PARENT(s, bp))
        bp1 == IF rot THEN PARENT(s, bp) ELSE bp
    IN IF COLOR(s, uncle) = RED
       THEN InsertFixupMoveUp(
                ColorGrandparent(
                    SET_COLOR(ColorParent(s, bp, BLACK), uncle, BLACK), bp, RED), bp)
       ELSE [s |-> RightRotateGrandparent(
                       ColorGrandparent(
                           ColorParent(IF rot THEN left_rotate(s, bp1) ELSE s, bp1, BLACK),
                           bp1, RED),
                       bp1),
             bp |-> bp1]

\* One iteration of the loop of rbt_insert_fixup, parent is a right child.
InsertFixupRight(s, bp) ==
    LET uncle == LEFT(s, PARENT(s, PARENT(s, bp)))
        rot == bp = LEFT(s, PARENT(s, bp))
        bp1 == IF rot THEN PARENT(s, bp) ELSE bp
    IN IF COLOR(s, uncle) = RED
       THEN InsertFixupMoveUp(
                ColorGrandparent(
                    SET_COLOR(ColorParent(s, bp, BLACK), uncle, BLACK), bp, RED), bp)
       ELSE [s |-> LeftRotateGrandparent(
                       ColorGrandparent(
                           ColorParent(IF rot THEN right_rotate(s, bp1) ELSE s, bp1, BLACK),
                           bp1, RED),
                       bp1),
             bp |-> bp1]

RECURSIVE rbt_insert_fixup(_, _)

\* The next iteration of the loop, from the state and bp an iteration left.
InsertFixupLoop(r) == rbt_insert_fixup(r.s, r.bp)

rbt_insert_fixup(s, bp) ==
    IF bp # s.root /\ COLOR(s, PARENT(s, bp)) = RED
    THEN InsertFixupLoop(IF PARENT(s, bp) = LEFT(s, PARENT(s, PARENT(s, bp)))
                         THEN InsertFixupLeft(s, bp)
                         ELSE InsertFixupRight(s, bp))
    ELSE SET_COLOR(s, s.root, BLACK)

\* The descent loop of rbt_insert: the node under which bp is linked.
RECURSIVE InsertDescend(_, _, _, _)
InsertDescend(s, x, y, size) ==
    IF x # NIL
    THEN InsertDescend(s, IF size < SIZE_OF(s, x) THEN LEFT(s, x) ELSE RIGHT(s, x), x, size)
    ELSE y

\* Variant of InsertLink that links bp on the other side of y.
InsertLinkMirrored(s, bp, y, size) ==
    IF y = NIL THEN SET_ROOT(s, bp)
    ELSE IF size < SIZE_OF(s, y) THEN SET_RIGHT(s, y, bp)
    ELSE SET_LEFT(s, y, bp)

\* rbt_insert: bp becomes the root, or the left or right child of y
InsertLink(s, bp, y, size) ==
    IF y = NIL THEN SET_ROOT(s, bp)
    ELSE IF size < SIZE_OF(s, y) THEN SET_LEFT(s, y, bp)
    ELSE SET_RIGHT(s, y, bp)

rbt_insert(s, bp) ==
    LET size == SIZE_OF(s, bp)
        y == InsertDescend(s, s.root, NIL, size)
    IN rbt_insert_fixup(SET_COLOR(InsertLink(SET_PARENT(s, bp, y), bp, y, size), bp, RED), bp)

\* rbt_transplant: v takes the place of u under u's parent (or as root)
TransplantReplace(s, u, v) ==
    IF PARENT(s, u) = NIL THEN SET_ROOT(s, v)
    ELSE IF u = LEFT(s, PARENT(s, u)) THEN SET_LEFT(s, PARENT(s, u), v)
    ELSE SET_RIGHT(s, PARENT(s, u), v)

\* rbt_transplant: PARENT(v) = PARENT(u)
TransplantLink(s, u, v) == SET_PARENT(s, v, PARENT(s, u))

rbt_transplant(s, u, v) == TransplantLink(TransplantReplace(s, u, v), u, v)

RECURSIVE rbt_minimum(_, _)
rbt_minimum(s, node) ==
    IF LEFT(s, node) # NIL THEN rbt_minimum(s, LEFT(s, node)) ELSE node

\* rbt_remove_fixup, x is a left child: w = RIGHT(PARENT(x)); r.s is the
\* state and r.w the local variable w.
LeftSibling(s, x) == [s |-> s, w |-> RIGHT(s, PARENT(s, x))]

\* the sibling is red: recolour, rotate at the parent, read the new sibling
LeftRedSibling(r, x) ==
    IF COLOR(r.s, r.w) = RED
    THEN LeftSibling(LeftRotateParent(ColorParent(SET_COLOR(r.s, r.w, BLACK), x, RED), x), x)
    ELSE r

\* Variant of LeftBlackNephews that moves up without colouring the sibling red.
LeftBlackNephewsNoRecolor(r, x) ==
    [s |-> Note(r.s, "fixup_recolor"), x |-> PARENT(r.s, x)]

\* both children of the sibling are black: SET_COLOR(w, RED); x = PARENT(x)
LeftBlackNephews(r, x) ==
    [s |-> Note(SET_COLOR(r.s, r.w, RED), "fixup_recolor"), x |-> PARENT(r.s, x)]

\* SET_COLOR(LEFT(w), c) and SET_COLOR(RIGHT(w), c)
LeftColorNear(s, w, c) == SET_COLOR(s, LEFT(s, w), c)
LeftColorFar(s, w, c) == SET_COLOR(s, RIGHT(s, w), c)

\* the far child of the sibling is black: recolour, rotate at the sibling,
\* read the new sibling
LeftBlackFarNephew(r, x) ==
    IF COLOR(r.s, RIGHT(r.s, r.w)) = BLACK
    THEN LeftSibling(right_rotate(SET_COLOR(LeftColorNear(r.s, r.w, BLACK), r.w, RED), r.w), x)
    ELSE r

\* SET_COLOR(w, COLOR(PARENT(x)))
LeftCopyParentColor(s, w, x) == SET_COLOR(s, w, COLOR(s, PARENT(s, x)))

\* x = root ends the loop
LeftFinish(s) == [s |-> s, x |-> s.root]

\* the last case: recolour, rotate at the parent, x = root
LeftRedFarNephew(r, x) ==
    LeftFinish(
        LeftRotateParent(
            LeftColorFar(ColorParent(LeftCopyParentColor(r.s, r.w, x), x, BLACK), r.w, BLACK),
            x))

\* the cases after the red-sibling case
LeftCases(r, x) ==
    IF COLOR(r.s, LEFT(r.s, r.w)) = BLACK /\ COLOR(r.s, RIGHT(r.s, r.w)) = BLACK
    THEN LeftBlackNephews(r, x)
    ELSE LeftRedFarNephew(LeftBlackFarNephew(r, x), x)

\* One iteration of the loop of rbt_remove_fixup, x is a left child.
RemoveFixupLeft(s, x) == LeftCases(LeftRedSibling(LeftSibling(s, x), x), x)

\* rbt_remove_fixup, x is a right child: w = LEFT(PARENT(x)); r.s is the
\* state and r.w the local variable w.
RightSibling(s, x) == [s |-> s, w |-> LEFT(s, PARENT(s, x))]

\* the sibling is red: recolour, rotate at the parent, read the new sibling
RightRedSibling(r, x) ==
    IF COLOR(r.s, r.w) = RED
    THEN RightSibling(RightRotateParent(ColorParent(SET_COLOR(r.s, r.w, BLACK), x, RED), x), x)
    ELSE r

\* both children of the sibling are black: SET_COLOR(w, RED); x = PARENT(x)
RightBlackNephews(r, x) ==
    [s |-> Note(SET_COLOR(r.s, r.w, RED), "fixup_recolor"), x |-> PARENT(r.s, x)]

\* SET_COLOR(RIGHT(w), c) and SET_COLOR(LEFT(w), c)
RightColorNear(s, w, c) == SET_COLOR(s, RIGHT(s, w), c)
RightColorFar(s, w, c) == SET_COLOR(s, LEFT(s, w), c)

\* the far child of the sibling is black: recolour, rotate at the sibling,
\* read the new sibling
RightBlackFarNephew(r, x) ==
    IF COLOR(r.s, LEFT(r.s, r.w)) = BLACK
    THEN RightSibling(left_rotate(SET_COLOR(RightColorNear(r.s, r.w, BLACK), r.w, RED), r.w), x)
    ELSE r

\* SET_COLOR(w, COLOR(PARENT(x)))
RightCopyParentColor(s, w, x) == SET_COLOR(s, w, COLOR(s, PARENT(s, x)))

\* x = root ends the loop
RightFinish(s) == [s |-> s, x |-> s.root]

\* the last case: recolour, rotate at the parent, x = root
RightRedFarNephew(r, x) ==
    RightFinish(
        RightRotateParent(
            RightColorFar(ColorParent(RightCopyParentColor(r.s, r.w, x), x, BLACK), r.w, BLACK),
            x))

\* the cases after the red-sibling case
RightCases(r, x) ==
    IF COLOR(r.s, RIGHT(r.s, r.w)) = BLACK /\ COLOR(r.s, LEFT(r.s, r.w)) = BLACK
    THEN RightBlackNephews(r, x)
    ELSE RightRedFarNephew(RightBlackFarNephew(r, x), x)

\* One iteration of the loop of rbt_remove_fixup, x is a right child.
RemoveFixupRight(s, x) == RightCases(RightRedSibling(RightSibling(s, x), x), x)

RECURSIVE rbt_remove_fixup(_, _)

\* The next iteration of the loop, from the state and x an iteration left.
RemoveFixupLoop(r) == rbt_remove_fixup(r.s, r.x)

rbt_remove_fixup(s, x) ==
    IF x # s.root /\ COLOR(s, x) = BLACK
    THEN RemoveFixupLoop(IF x = LEFT(s, PARENT(s, x))
                         THEN RemoveFixupLeft(s, x)
                         ELSE RemoveFixupRight(s, x))
    ELSE SET_COLOR(s, x, BLACK)

\* rbt_remove, two children: RIGHT(y) = RIGHT(bp)
SuccessorTakeRight(s, bp, y) == SET_RIGHT(s, y, RIGHT(s, bp))

\* rbt_remove, two children: PARENT(RIGHT(y)) = y
SuccessorOwnRight(s, y) == SET_PARENT(s, RIGHT(s, y), y)

\* rbt_remove, two children: rbt_transplant(y, RIGHT(y))
SuccessorUnlink(s, y) == rbt_transplant(s, y, RIGHT(s, y))

\* rbt_remove, two children: the successor y is detached from its place
SuccessorDetach(s, bp, y, x) ==
    IF PARENT(s, y) = bp THEN SET_PARENT(s, x, y)
    ELSE SuccessorOwnRight(SuccessorTakeRight(SuccessorUnlink(s, y), bp, y), y)

\* rbt_remove, two children: LEFT(y) = LEFT(bp)
SuccessorTakeLeft(s, bp, y) == SET_LEFT(s, y, LEFT(s, bp))

\* rbt_remove, two children: PARENT(LEFT(y)) = y
SuccessorOwnLeft(s, y) == SET_PARENT(s, LEFT(s, y), y)

\* rbt_remove, two children: SET_COLOR(y, COLOR(bp))
SuccessorTakeColor(s, bp, y) == SET_COLOR(s, y, COLOR(s, bp))

\* The two-children branch of rbt_remove: splice the in-order successor y in.
RemoveTwoChildren(s, bp) ==
    LET y == rbt_minimum(s, RIGHT(s, bp))
        x == RIGHT(s, y)
    IN [s |-> Note(SuccessorTakeColor(
                       SuccessorOwnLeft(
                           SuccessorTakeLeft(
                               rbt_transplant(SuccessorDetach(s, bp, y, x), bp, y), bp, y),
                           y),
                       bp, y),
                   "remove_two_children"),
        x |-> x, color |-> COLOR(s, y)]

\* Variant of RemoveFix that runs the fixup whatever the colour of the node
\* that left its place.
RemoveFixAlways(r) == rbt_remove_fixup(r.s, r.x)

\* rbt_remove: if (y_original_color == BLACK) rbt_remove_fixup(x)
RemoveFix(r) ==
    IF r.color = BLACK
    THEN rbt_remove_fixup(Note(r.s, IF r.x = NIL THEN "fixup_at_nil" ELSE "fixup_at_node"), r.x)
    ELSE r.s

rbt_remove(s, bp) ==
    RemoveFix(IF LEFT(s, bp) = NIL
              THEN [s |-> rbt_transplant(s, bp, RIGHT(s, bp)), x |-> RIGHT(s, bp),
                    color |-> COLOR(s, bp)]
              ELSE IF RIGHT(s, bp) = NIL
              THEN [s |-> rbt_transplant(s, bp, LEFT(s, bp)), x |-> LEFT(s, bp),
                    color |-> COLOR(s, bp)]
              ELSE RemoveTwoChildren(s, bp))

\* Variant of rbt_find_best_fit that stops at the first node that is large
\* enough instead of looking for a smaller one in its left subtree.
RECURSIVE FirstFitInTree(_, _, _, _)
FirstFitInTree(s, node, asize, best_fit) ==
    IF node = NIL THEN best_fit
    ELSE IF SIZE_OF(s, node) >= asize THEN node
    ELSE FirstFitInTree(s, RIGHT(s, node), asize, best_fit)

RECURSIVE rbt_find_best_fit(_, _, _, _)
rbt_find_best_fit(s, node, asize, best_fit) ==
    IF node = NIL THEN best_fit
    ELSE LET nsize == SIZE_OF(s, node)
         IN IF nsize >= asize
            THEN rbt_find_best_fit(s, LEFT(s, node), asize,
                     IF best_fit = NULL \/ nsize < SIZE_OF(s, best_fit)
                     THEN node ELSE best_fit)
            ELSE rbt_find_best_fit(s, RIGHT(s, node), asize, best_fit)

(***************************************************************************)
(* The memory provider (memlib: mem_sbrk)                                  *)
(***************************************************************************)
mem_sbrk(s, incr) ==
    IF incr < 0 \/ s.mem_brk + incr > mem_max_addr
    THEN [s |-> Note(s, "refused"), ret |-> SBRK_FAIL]
    ELSE [s |-> Note([s EXCEPT !.mem_brk = @ + incr], "extended"), ret |-> s.mem_brk]

(***************************************************************************)
(* Allocator internals (mm.c 149-235)                                      *)
(***************************************************************************)
PUTW(s, p, val) == [s EXCEPT !.mem = PUT(@, p, val)]

\* Some node of the subtree at node lies at an address in lo .. hi.
RECURSIVE NodeWithin(_, _, _, _, _)
NodeWithin(s, node, lo, hi, fuel) ==
    /\ node # NIL
    /\ fuel > 0
    /\ \/ (lo <= node /\ node <= hi)
       \/ NodeWithin(s, LEFT(s, node), lo, hi, fuel - 1)
       \/ NodeWithin(s, RIGHT(s, node), lo, hi, fuel - 1)

\* No more nodes than blocks of the least size fit into the heap.
MaxNodes(s) == (s.mem_brk - mem_start_brk) \div MINBLOCKSIZE

\* Ghost: the state before the header of bp is written with val, marked when
\* bp is a tree node whose size the write changes ("stale_key"), or when the
\* block the header announces swallows a tree node ("absorbed_node").
WatchHeader(s, bp, val) ==
    IF ~NodeWithin(s, s.root, bp, bp + (val - (val % 8)) - 1, MaxNodes(s)) THEN s
    ELSE IF NodeWithin(s, s.root, bp + 1, bp + (val - (val % 8)) - 1, MaxNodes(s))
    THEN Note(s, "absorbed_node")
    ELSE IF val - (val % 8) # GET_SIZE(s.mem, HDRP(bp)) THEN Note(s, "stale_key")
    ELSE s

\* Ghost: the state before bp is inserted with key size, marked when the
\* header and the footer of bp are not both PACK(size, 0) ("insert_unfinished").
WatchInsert(s, bp, size) ==
    IF GET(s.mem, HDRP(bp)) = PACK(size, 0) /\ GET(s.mem, FTRP(s.mem, bp)) = PACK(size, 0)
    THEN s
    ELSE Note(s, "insert_unfinished")

\* PUT(HDRP(bp), val) and PUT(FTRP(bp), val) on the allocator state.
PUT_HDR(s, bp, val) == PUTW(WatchHeader(s, bp, val), HDRP(bp), val)
PUT_FTR(s, bp, val) == PUTW(s, FTRP(s.mem, bp), val)

\* (a - b) >= k with a - b computed in uint32_t.
U32SubGe(a, b, k) == IF a >= b THEN a - b >= k ELSE TRUE

insert_free_block(s, bp, size) ==
    rbt_insert(SET_COLOR(SET_RIGHT(SET_LEFT(SET_PARENT(WatchInsert(s, bp, size), bp, NIL),
                                            bp, NIL),
                                   bp, NIL),
                         bp, RED),
               bp)

remove_free_block(s, bp) == rbt_remove(s, bp)

find_fit(s, asize) == rbt_find_best_fit(s, s.root, asize, NULL)

\* coalesce works on r: the state r.s and the local variables r.bp, r.size.
\* remove_free_block(NEXT_BLKP(bp)) and remove_free_block(PREV_BLKP(bp))
RemoveNext(r) == [r EXCEPT !.s = remove_free_block(@, NEXT_BLKP(r.s.mem, r.bp))]
RemovePrev(r) == [r EXCEPT !.s = remove_free_block(@, PREV_BLKP(r.s.mem, r.bp))]

\* size += GET_SIZE(HDRP(NEXT_BLKP(bp)))
AddNextSize(r) ==
    [r EXCEPT !.size = @ + GET_SIZE(r.s.mem, HDRP(NEXT_BLKP(r.s.mem, r.bp)))]

\* size += GET_SIZE(HDRP(PREV_BLKP(bp)))
AddPrevSize(r) ==
    [r EXCEPT !.size = @ + GET_SIZE(r.s.mem, HDRP(PREV_BLKP(r.s.mem, r.bp)))]

\* size += GET_SIZE(HDRP(PREV_BLKP(bp))) + GET_SIZE(FTRP(NEXT_BLKP(bp)))
AddBothSizes(r) ==
    [r EXCEPT !.size = @ + GET_SIZE(r.s.mem, HDRP(PREV_BLKP(r.s.mem, r.bp)))
                         + GET_SIZE(r.s.mem, FTRP(r.s.mem, NEXT_BLKP(r.s.mem, r.bp)))]

\* PUT(HDRP(bp), PACK(size,0)) and PUT(FTRP(bp), PACK(size,0))
TagHeader(r) == [r EXCEPT !.s = PUT_HDR(@, r.bp, PACK(r.size, 0))]
\* Variant of TagFooter that leaves the footer word as it was.
TagFooterSkipped(r) == r

TagFooter(r) == [r EXCEPT !.s = PUT_FTR(@, r.bp, PACK(r.size, 0))]

\* PUT(HDRP(PREV_BLKP(bp)), PACK(size,0)) and PUT(FTRP(NEXT_BLKP(bp)), PACK(size,0))
TagPrevHeader(r) == [r EXCEPT !.s = PUT_HDR(@, PREV_BLKP(r.s.mem, r.bp), PACK(r.size, 0))]
TagNextFooter(r) == [r EXCEPT !.s = PUT_FTR(@, NEXT_BLKP(r.s.mem, r.bp), PACK(r.size, 0))]

\* bp = PREV_BLKP(bp)
MoveToPrev(r) == [r EXCEPT !.bp = PREV_BLKP(r.s.mem, r.bp)]

\* coalesce, prev allocated and next free
CoalesceNext(r) == TagFooter(TagHeader(AddNextSize(RemoveNext(r))))

\* Variant of the third case of coalesce that takes the previous block out
\* of the tree only after the tags are written.
CoalescePrevRemovesLate(r) ==
    MoveToPrev(RemovePrev(TagPrevHeader(TagFooter(AddPrevSize(r)))))

\* Variant of the third case of coalesce that merges nothing.
CoalescePrevSkipped(r) == r

\* coalesce, prev free and next allocated
CoalescePrev(r) == MoveToPrev(TagPrevHeader(TagFooter(AddPrevSize(RemovePrev(r)))))

\* Variant of the fourth case of coalesce that merges nothing.
CoalesceBothSkipped(r) == r

\* coalesce, prev and next both free
CoalesceBoth(r) ==
    MoveToPrev(TagNextFooter(TagPrevHeader(AddBothSizes(RemoveNext(RemovePrev(r))))))

\* insert_free_block(bp, size); return bp
CoalesceInsert(r) == [s |-> insert_free_block(r.s, r.bp, r.size), ret |-> r.bp]

coalesce(s, bp) ==
    LET prev_alloc == GET_ALLOC(s.mem, FTRP(s.mem, PREV_BLKP(s.mem, bp)))
        next_alloc == GET_ALLOC(s.mem, HDRP(NEXT_BLKP(s.mem, bp)))
        size == GET_SIZE(s.mem, HDRP(bp))
    IN CoalesceInsert(
           IF prev_alloc # 0 /\ next_alloc # 0
           THEN [s |-> Note(s, "coalesce_none"), bp |-> bp, size |-> size]
           ELSE IF prev_alloc # 0 /\ next_alloc = 0
           THEN CoalesceNext([s |-> Note(s, "coalesce_next"), bp |-> bp, size |-> size])
           ELSE IF prev_alloc = 0 /\ next_alloc # 0
           THEN CoalescePrev([s |-> Note(s, "coalesce_prev"), bp |-> bp, size |-> size])
           ELSE CoalesceBoth([s |-> Note(s, "coalesce_both"), bp |-> bp, size |-> size]))

\* extend_heap: PUT(HDRP(NEXT_BLKP(bp)), PACK(0,1)), the new epilogue
PutEpilogue(s, bp) == PUT_HDR(s, NEXT_BLKP(s.mem, bp), PACK(0, 1))

\* extend_heap after the call of mem_sbrk, which returned got.ret
ExtendWith(got, size) ==
    IF got.ret = SBRK_FAIL THEN [s |-> got.s, ret |-> NULL]
    ELSE coalesce(
             PutEpilogue(
                 PUT_FTR(PUT_HDR(got.s, got.ret, PACK(size, 0)), got.ret, PACK(size, 0)),
                 got.ret),
             got.ret)

\* Variant of extend_heap that asks the provider for one double word more
\* than the block it builds.
ExtendHeapOverRequest(s, words) ==
    LET size == IF words % 2 = 1 THEN (words + 1) * WSIZE ELSE words * WSIZE
    IN ExtendWith(mem_sbrk(s, size + DSIZE), size)

extend_heap(s, words) ==
    LET size == IF words % 2 = 1 THEN (words + 1) * WSIZE ELSE words * WSIZE
    IN ExtendWith(mem_sbrk(s, size), size)

\* The remainder of a split: header, footer, insert_free_block(new_bp, rsize)
SplitRemainder(s, new_bp, rsize) ==
    insert_free_block(
        PUT_FTR(PUT_HDR(s, new_bp, PACK(rsize, 0)), new_bp, PACK(rsize, 0)), new_bp, rsize)

\* void *new_bp = NEXT_BLKP(bp), and the remainder there
SplitAtNext(s, bp, rsize) == SplitRemainder(s, NEXT_BLKP(s.mem, bp), rsize)

\* The split of a block of csize bytes at bp into asize allocated bytes and a
\* free remainder that is inserted into the tree (place, and both in-place
\* branches of mm_realloc).
SplitBlock(s, bp, csize, asize) ==
    SplitAtNext(PUT_FTR(PUT_HDR(s, bp, PACK(asize, 1)), bp, PACK(asize, 1)), bp, csize - asize)

\* place after remove_free_block(bp)
PlaceIn(s, bp, csize, asize) ==
    IF U32SubGe(csize, asize, MINBLOCKSIZE)
    THEN SplitBlock(Note(s, "place_split"), bp, csize, asize)
    ELSE PUT_FTR(PUT_HDR(Note(s, "place_whole"), bp, PACK(csize, 1)), bp, PACK(csize, 1))

\* Variant of place that allocates the block without removing it from the
\* tree first.
PlaceKeepsNode(s, bp, asize) == PlaceIn(s, bp, GET_SIZE(s.mem, HDRP(bp)), asize)

place(s, bp, asize) ==
    PlaceIn(remove_free_block(s, bp), bp, GET_SIZE(s.mem, HDRP(bp)), asize)

(***************************************************************************)
(* Public operations (mm.c 125-147, 237-352)                               *)
(***************************************************************************)
Blank ==
    [mem |-> << >>,
     root |-> NULL, heap_listp |-> NULL, mem_brk |-> mem_start_brk, ev |-> {}]

\* mm_init: the NIL sentinel and the empty tree
InitNil(s) ==
    SET_ROOT(SET_COLOR(SET_RIGHT(SET_LEFT(SET_PARENT(s, NIL, NIL), NIL, NIL), NIL, NIL),
                       NIL, BLACK),
             NIL)

\* mm_init: padding word, prologue header and footer, epilogue header at h,
\* and heap_listp += 2 * WSIZE
InitPrologue(s, h) ==
    [PUTW(PUTW(PUTW(PUTW(s, h, 0), h + 1 * WSIZE, PACK(DSIZE, 1)),
               h + 2 * WSIZE, PACK(DSIZE, 1)),
          h + 3 * WSIZE, PACK(0, 1))
     EXCEPT !.heap_listp = h + 2 * WSIZE]

\* mm_init: if (extend_heap(CHUNKSIZE/WSIZE) == NULL) return -1; return 0
InitExtended(ext) == [s |-> ext.s, ret |-> IF ext.ret = NULL THEN -1 ELSE 0]

\* mm_init after the call of mem_sbrk, which returned got.ret
InitHeap(got) ==
    IF got.ret = SBRK_FAIL
    THEN [s |-> [got.s EXCEPT !.heap_listp = SBRK_FAIL], ret |-> -1]
    ELSE InitExtended(extend_heap(InitPrologue(got.s, got.ret), CHUNKSIZE \div WSIZE))

mm_init(s) == InitHeap(mem_sbrk(InitNil(s), 4 * WSIZE))

\* mm_malloc after the call of extend_heap
MallocExtended(ext, asize) ==
    IF ext.ret = NULL THEN [s |-> ext.s, ret |-> NULL]
    ELSE [s |-> place(ext.s, ext.ret, asize), ret |-> ext.ret]

\* mm_malloc after the call of find_fit, which returned bp
MallocFound(s, bp, asize) ==
    IF bp # NULL THEN [s |-> place(Note(s, "fit"), bp, asize), ret |-> bp]
    ELSE MallocExtended(extend_heap(s, MAX(asize, CHUNKSIZE) \div WSIZE), asize)

mm_malloc(s, size) ==
    IF size = U32(0) THEN [s |-> s, ret |-> NULL]
    ELSE MallocFound(s, find_fit(s, AdjustedSize(size)), AdjustedSize(size))

\* Variant of mm_free that leaves the allocated bit set in the header.
FreeKeepsAllocBit(s, bp) ==
    LET size == GET_SIZE(s.mem, HDRP(bp))
    IN IF bp = NULL THEN s
       ELSE coalesce(PUT_FTR(PUT_HDR(s, bp, PACK(size, 1)), bp, PACK(size, 0)), bp).s

mm_free(s, bp) ==
    LET size == GET_SIZE(s.mem, HDRP(bp))
    IN IF bp = NULL THEN s
       ELSE coalesce(PUT_FTR(PUT_HDR(s, bp, PACK(size, 0)), bp, PACK(size, 0)), bp).s

\* memcpy(dst, src, n), byte by byte: a source byte that was never written
\* has no defined value, and neither has its copy.
memcpy(m, dst, src, n) ==
    LET written == {a \in dst .. dst + n - 1 : (a - dst + src) \in DOMAIN m}
        lost == (dst .. dst + n - 1) \ written
    IN [a \in (DOMAIN m \ lost) \cup written |->
           IF a \in written THEN m[a - dst + src] ELSE m[a]]

\* mm_realloc, asize <= current size: shrink in place.
ReallocShrink(s, ptr, asize) ==
    LET csize == GET_SIZE(s.mem, HDRP(ptr))
    IN IF U32SubGe(csize, asize, MINBLOCKSIZE)
       THEN SplitBlock(Note(s, "shrink_split"), ptr, csize, asize)
       ELSE Note(s, "shrink_keep")

\* Variant of AbsorbSplit that never splits a remainder off.
AbsorbWhole(s, ptr, new_size, asize) == s

\* mm_realloc, absorb: split when the remainder is large enough
AbsorbSplit(s, ptr, new_size, asize) ==
    IF U32SubGe(new_size, asize, MINBLOCKSIZE)
    THEN SplitBlock(Note(s, "absorb_split"), ptr, new_size, asize)
    ELSE s

\* mm_realloc, absorb after remove_free_block(next_bp):
\* new_size = csize + GET_SIZE(HDRP(next_bp)), written to header and footer
AbsorbNext(s, ptr, csize, next_bp, asize) ==
    LET new_size == csize + GET_SIZE(s.mem, HDRP(next_bp))
    IN AbsorbSplit(PUT_FTR(PUT_HDR(s, ptr, PACK(new_size, 1)), ptr, PACK(new_size, 1)),
                   ptr, new_size, asize)

\* mm_realloc, the next block is free and large enough: absorb it.
ReallocAbsorb(s, ptr, asize) ==
    LET csize == GET_SIZE(s.mem, HDRP(ptr))
        next_bp == NEXT_BLKP(s.mem, ptr)
    IN AbsorbNext(remove_free_block(Note(s, "absorb"), next_bp), ptr, csize, next_bp, asize)

\* mm_realloc, fallback: memcpy(new_ptr, ptr, copy_size); mm_free(ptr)
MoveCopyFree(got, ptr, copy_size) ==
    mm_free([got.s EXCEPT !.mem = memcpy(@, got.ret, ptr, copy_size)], ptr)

\* Variant of MoveInto that frees the old block even when the new allocation
\* failed.
MoveIntoFreesOnFailure(got, ptr, copy_size) ==
    IF got.ret = NULL THEN [s |-> mm_free(got.s, ptr), ret |-> NULL]
    ELSE [s |-> MoveCopyFree(got, ptr, copy_size), ret |-> got.ret]

\* mm_realloc, fallback after the call of mm_malloc, which returned got.ret
MoveInto(got, ptr, copy_size) ==
    IF got.ret = NULL THEN [s |-> got.s, ret |-> NULL]
    ELSE [s |-> MoveCopyFree(got, ptr, copy_size), ret |-> got.ret]

\* mm_realloc, fallback: allocate, copy, free.
ReallocMove(s, ptr, size) ==
    LET old_size == GET_SIZE(s.mem, HDRP(ptr)) - DSIZE
        copy_size == IF U32LtInt(size, old_size) THEN U32Val(size) ELSE old_size
    IN MoveInto(mm_malloc(Note(s, "move"), size), ptr, copy_size)

\* Variant of mm_realloc whose in-place test is strict: a request that needs
\* exactly the current block size is not served in place.
ReallocStrictShrink(s, ptr, size) ==
    LET asize == AdjustedSize(size)
        csize == GET_SIZE(s.mem, HDRP(ptr))
        next_bp == NEXT_BLKP(s.mem, ptr)
    IN IF size = U32(0) THEN [s |-> mm_free(s, ptr), ret |-> NULL]
       ELSE IF ptr = NULL THEN mm_malloc(s, size)
       ELSE IF asize < csize THEN [s |-> ReallocShrink(s, ptr, asize), ret |-> ptr]
       ELSE IF GET_ALLOC(s.mem, HDRP(next_bp)) = 0
               /\ GET_SIZE(s.mem, HDRP(next_bp)) + csize >= asize
       THEN [s |-> ReallocAbsorb(s, ptr, asize), ret |-> ptr]
       ELSE ReallocMove(s, ptr, size)

mm_realloc(s, ptr, size) ==
    LET asize == AdjustedSize(size)
        csize == GET_SIZE(s.mem, HDRP(ptr))
        next_bp == NEXT_BLKP(s.mem, ptr)
    IN IF size = U32(0) THEN [s |-> mm_free(s, ptr), ret |-> NULL]
       ELSE IF ptr = NULL THEN mm_malloc(s, size)
       ELSE IF asize <= csize THEN [s |-> ReallocShrink(s, ptr, asize), ret |-> ptr]
       ELSE IF GET_ALLOC(s.mem, HDRP(next_bp)) = 0
               /\ GET_SIZE(s.mem, HDRP(next_bp)) + csize >= asize
       THEN [s |-> ReallocAbsorb(s, ptr, asize), ret |-> ptr]
       ELSE ReallocMove(s, ptr, size)

(***************************************************************************)
(* Views of the heap and of the tree used by the properties                *)
(***************************************************************************)
\* The payload addresses of the blocks between prologue and epilogue, in
\* address order (the walk by NEXT_BLKP from the first block).
RECURSIVE WalkFrom(_, _, _)
WalkFrom(s, bp, fuel) ==
    IF fuel = 0 \/ SIZE_OF(s, bp) = 0 THEN << >>
    ELSE <<bp>> \o WalkFrom(s, NEXT_BLKP(s.mem, bp), fuel - 1)

FirstBlock(s) == NEXT_BLKP(s.mem, s.heap_listp)

Blocks(s) == WalkFrom(s, FirstBlock(s), (s.mem_brk - mem_start_brk) \div DSIZE)

IsFree(s, bp) == GET_ALLOC(s.mem, HDRP(bp)) = 0

FreeBlocks(s) == {Blocks(s)[i] : i \in {j \in DOMAIN Blocks(s) : IsFree(s, Blocks(s)[j])}}

AllocBlocks(s) == {Blocks(s)[i] : i \in {j \in DOMAIN Blocks(s) : ~IsFree(s, Blocks(s)[j])}}

RECURSIVE SumSizes(_, _)
SumSizes(s, S) ==
    IF S = {} THEN 0
    ELSE LET b == CHOOSE x \in S : TRUE IN SIZE_OF(s, b) + SumSizes(s, S \ {b})

FreeBytes(s) == SumSizes(s, FreeBlocks(s))

\* The nodes met by a pre-order traversal from node, as a sequence (a node met
\* twice appears twice); fuel cuts a traversal of a cyclic structure.
RECURSIVE TreeSeq(_, _, _)
TreeSeq(s, node, fuel) ==
    IF node = NIL \/ fuel = 0 THEN << >>
    ELSE <<node>> \o TreeSeq(s, LEFT(s, node), fuel - 1)
                  \o TreeSeq(s, RIGHT(s, node), fuel - 1)

TreeNodes(s) == TreeSeq(s, s.root, Len(Blocks(s)) + 1)

SeqRange(q) == {q[i] : i \in DOMAIN q}

(***************************************************************************)
(* The state machine: the allocator's globals (mem, root, heap_listp), the  *)
(* provider's break (mem_brk) and the mutator's side:                      *)
(*   live  the payload pointers it holds, each with the size it asked for  *)
(*   last  the operation that led to this state: its name, arguments and   *)
(*         return value, the branches it went through (ev), the free bytes *)
(*         (fb) and the break (brk) before it; for a free of the pointer   *)
(*         that the operation just before it allocated, pair is TRUE and   *)
(*         fb, brk are those before that allocation                        *)
(*   nops  the number of operations so far                                 *)
(***************************************************************************)
\* trace is the list of the calls made so far, kept only by the machine that
\* replays the spec's scenarios (SpecScenario).
VARIABLES mem, root, heap_listp, mem_brk, live, last, nops, trace

vars == <<mem, root, heap_listp, mem_brk, live, last, nops, trace>>

St ==
    [mem |-> mem, root |-> root, heap_listp |-> heap_listp, mem_brk |-> mem_brk, ev |-> {}]

\* Bound of the model: the number of public operations after mm_init.
MaxOps == 4

\* Request sizes the mutator draws from.
Sizes == {U32(1), U32(40), U32(100), U32(4080), U32(8200), SIZE_MAX}

ReallocSizes == Sizes \cup {U32(0)}

\* Byte written at offset i of a payload that is filled with pattern tag.
FillTags == {37}
FillByte(tag, i) == (tag + i) % 128

\* Bound of the model: the mutator writes at most this many bytes of a payload.
MaxFill == 64

Install(s) ==
    /\ mem' = s.mem
    /\ root' = s.root
    /\ heap_listp' = s.heap_listp
    /\ mem_brk' = s.mem_brk

InitStarted(r) ==
    /\ mem = r.s.mem
    /\ root = r.s.root
    /\ heap_listp = r.s.heap_listp
    /\ mem_brk = r.s.mem_brk
    /\ live = << >>
    /\ last = [op |-> "init", ptr |-> NULL, size |-> U32(0), ret |-> r.ret,
               ev |-> r.s.ev, fb |-> 0, brk |-> mem_start_brk, pair |-> FALSE]
    /\ nops = 0
    /\ trace = << >>

Init == InitStarted(mm_init(Blank))

Drop(f, p) == [q \in DOMAIN f \ {p} |-> f[q]]

\* The mutator after mm_malloc(n) returned r.ret and left the state r.s.
MallocReturned(n, r) ==
    /\ Install(r.s)
    /\ live' = IF r.ret = NULL THEN live ELSE (r.ret :> n) @@ live
    /\ last' = [op |-> "malloc", ptr |-> NULL, size |-> n, ret |-> r.ret,
                ev |-> r.s.ev, fb |-> FreeBytes(St), brk |-> mem_brk, pair |-> FALSE]
    /\ nops' = nops + 1

Malloc(n) == MallocReturned(n, mm_malloc(St, n))

\* The mutator after mm_free(p) left the state s.
FreeReturned(p, s) ==
    LET pair == last.op = "malloc" /\ p # NULL /\ last.ret = p
    IN /\ Install(s)
       /\ live' = Drop(live, p)
       /\ last' = [op |-> "free", ptr |-> p, size |-> U32(0), ret |-> NULL, ev |-> s.ev,
                   fb |-> IF pair THEN last.fb ELSE FreeBytes(St),
                   brk |-> IF pair THEN last.brk ELSE mem_brk,
                   pair |-> pair]
       /\ nops' = nops + 1

Free(p) == FreeReturned(p, mm_free(St, p))

\* The mutator after mm_realloc(p, n) returned r.ret and left the state r.s.
ReallocReturned(p, n, r) ==
    /\ Install(r.s)
    /\ live' = IF n = U32(0) THEN Drop(live, p)
               ELSE IF r.ret = NULL THEN live
               ELSE (r.ret :> n) @@ Drop(live, p)
    /\ last' = [op |-> "realloc", ptr |-> p, size |-> n, ret |-> r.ret,
                ev |-> r.s.ev, fb |-> FreeBytes(St), brk |-> mem_brk, pair |-> FALSE]
    /\ nops' = nops + 1

Realloc(p, n) == ReallocReturned(p, n, mm_realloc(St, p, n))

\* The mutator writes the pattern over the first bytes it asked for (never
\* past the end of the payload of its block).
UserFill(m, p, n, tag) ==
    LET cap == GET_SIZE(m, HDRP(p)) - DSIZE
        len == IF U32LtInt(n, cap) THEN U32Val(n) ELSE cap
        top == IF len < MaxFill THEN len ELSE MaxFill
    IN [a \in p .. p + top - 1 |-> FillByte(tag, a - p)] @@ m

Fill(p, tag) ==
    /\ mem' = UserFill(mem, p, live[p], tag)
    /\ UNCHANGED <<root, heap_listp, mem_brk, live>>
    /\ last' = [op |-> "fill", ptr |-> p, size |-> live[p], ret |-> NULL,
                ev |-> {}, fb |-> FreeBytes(St), brk |-> mem_brk, pair |-> FALSE]
    /\ nops' = nops + 1

Next ==
    \/ \E n \in ReallocSizes : nops < MaxOps /\ Malloc(n) /\ UNCHANGED trace
    \/ \E p \in DOMAIN live \cup {NULL} : nops < MaxOps /\ Free(p) /\ UNCHANGED trace
    \/ \E p \in DOMAIN live \cup {NULL}, n \in ReallocSizes :
          nops < MaxOps /\ Realloc(p, n) /\ UNCHANGED trace
    \/ \E p \in DOMAIN live, tag \in FillTags : nops < MaxOps /\ Fill(p, tag) /\ UNCHANGED trace

Spec == Init /\ [][Next]_vars

(***************************************************************************)
(* The same machine driven deeper with a narrower choice of sizes, so that *)
(* the tree grows to several nodes and loses nodes of every shape          *)
(***************************************************************************)
MaxTreeOps == 7

\* Bound of the model: the number of blocks the mutator holds at a time.
MaxTreeLive == 2

\* Sizes for the block the mutator keeps shrinking, and for its other requests.
AnchorSizes == {U32(4080), U32(3888), U32(3840), U32(3728), U32(3680), U32(3568)}

TreeSizes == {U32(40), U32(104), U32(152), U32(192)}

\* The live block with the lowest address.
Anchor == CHOOSE p \in DOMAIN live : \A q \in DOMAIN live : p <= q

NextTree ==
    \/ \E n \in TreeSizes \cup {U32(4080)} :
          /\ nops < MaxTreeOps
          /\ Cardinality(DOMAIN live) < MaxTreeLive
          /\ Malloc(n)
          /\ UNCHANGED trace
    \/ \E p \in DOMAIN live : nops < MaxTreeOps /\ Free(p) /\ UNCHANGED trace
    \/ \E n \in AnchorSizes :
          /\ nops < MaxTreeOps
          /\ live # << >>
          /\ U32Val(n) < U32Val(live[Anchor])
          /\ Realloc(Anchor, n)
          /\ UNCHANGED trace

SpecTree == Init /\ [][NextTree]_vars

(***************************************************************************)
(* The machine that replays scenarios: allocate and free only, from a      *)
(* fresh heap, remembering the calls it made                               *)
(***************************************************************************)
MaxScenarioOps == 7

\* Bound of the model: the number of allocate calls of a scenario.
MaxScenarioMallocs == 4

ScenarioSizes == {U32(90), U32(100), U32(200), U32(300), U32(4000)}

Mallocs(q) == Cardinality({i \in DOMAIN q : q[i].op = "malloc"})

NextScenario ==
    \/ \E n \in ScenarioSizes :
          /\ nops < MaxScenarioOps
          /\ Mallocs(trace) < MaxScenarioMallocs
          /\ Malloc(n)
          /\ trace' = Append(trace, [op |-> "malloc", size |-> n, ptr |-> NULL,
                                     ret |-> last'.ret, ev |-> last'.ev])
    \/ \E p \in DOMAIN live :
          /\ nops < MaxScenarioOps
          /\ Free(p)
          /\ trace' = Append(trace, [op |-> "free", size |-> U32(0), ptr |-> p,
                                     ret |-> NULL, ev |-> last'.ev])

SpecScenario == Init /\ [][NextScenario]_vars

(***************************************************************************)
(* Structural predicates over an allocator state                           *)
(***************************************************************************)
NoAdjacentFree(s) ==
    \A i \in 1 .. Len(Blocks(s)) - 1 :
        ~(IsFree(s, Blocks(s)[i]) /\ IsFree(s, Blocks(s)[i + 1]))

NoDuplicates(q) == \A i, j \in DOMAIN q : q[i] = q[j] => i = j

TreeIsFreeSet(s) ==
    /\ NoDuplicates(TreeNodes(s))
    /\ SeqRange(TreeNodes(s)) = FreeBlocks(s)

\* The number of BLACK nodes on every path from node down to NIL (NIL not
\* counted), or -1 when two paths differ.
RECURSIVE BlackHeight(_, _, _)
BlackHeight(s, node, fuel) ==
    IF node = NIL THEN 0
    ELSE IF fuel = 0 THEN -1
    ELSE LET l == BlackHeight(s, LEFT(s, node), fuel - 1)
             r == BlackHeight(s, RIGHT(s, node), fuel - 1)
         IN IF l = -1 \/ r = -1 \/ l # r THEN -1
            ELSE l + (IF COLOR(s, node) = BLACK THEN 1 ELSE 0)

RootBlack(s) == COLOR(s, s.root) = BLACK

NoRedRed(s) ==
    \A n \in SeqRange(TreeNodes(s)) :
        COLOR(s, n) = RED =>
            COLOR(s, LEFT(s, n)) = BLACK /\ COLOR(s, RIGHT(s, n)) = BLACK

RedBlack(s) ==
    /\ RootBlack(s)
    /\ NoRedRed(s)
    /\ BlackHeight(s, s.root, Len(Blocks(s)) + 1) # -1

(***************************************************************************)
(* C1 .. C4: the heap and the tree between operations                      *)
(***************************************************************************)

\* C1: after every public operation, no two physically adjacent blocks
\* between the prologue and the epilogue are both free (also after a
\* reallocate that shrinks in place and leaves a free remainder).
C1_NoAdjacentFree == NoAdjacentFree(St)

\* C2: after every public operation, the nodes reachable from the root are
\* exactly the free blocks met by the walk from prologue to epilogue, each
\* once, and no allocated block is a tree node.
C2_TreeIsFreeSet == TreeIsFreeSet(St)

\* A state reached by an operation that took a block out of the tree and put
\* a remainder back, with several free blocks in the heap.
C2_Witness ==
    /\ TreeIsFreeSet(St)
    /\ Cardinality(FreeBlocks(St)) >= 2
    /\ AllocBlocks(St) # {}
    /\ "place_split" \in last.ev

\* C3: after every public operation the tree is a red-black tree: the root
\* is BLACK, no RED node has a RED child, and every path from the root to NIL
\* holds the same number of BLACK nodes.
C3_RedBlack == RedBlack(St)

\* A state reached by removing a node with two children whose fixup started
\* at NIL, leaving at least three nodes.
C3_Witness ==
    /\ {"remove_two_children", "fixup_at_nil"} \subseteq last.ev
    /\ Len(TreeNodes(St)) >= 3
    /\ RedBlack(St)

\* The best-fit query answers asize correctly in state s: a free block of the
\* least size >= asize, or NULL when there is none.
BestFitCorrect(s, asize) ==
    LET bp == find_fit(s, asize)
        fits == {b \in FreeBlocks(s) : SIZE_OF(s, b) >= asize}
    IN IF fits = {} THEN bp = NULL
       ELSE bp \in fits /\ \A b \in fits : SIZE_OF(s, bp) <= SIZE_OF(s, b)

\* The adjusted sizes at which the answer of the query can change: around the
\* size of every free block, and the minimum.
ProbeSizes(s) ==
    {MINBLOCKSIZE} \cup UNION {{SIZE_OF(s, b) - DSIZE, SIZE_OF(s, b), SIZE_OF(s, b) + DSIZE} :
                                  b \in FreeBlocks(s)}

\* An allocate step out of the current state whose query succeeds returns
\* the block the query names, allocated and large enough.
PlacedInBestFit ==
    LET asize == AdjustedSize(last'.size)
        bp == find_fit(St, asize)
    IN (last'.op = "malloc" /\ last'.size # U32(0) /\ bp # NULL) =>
           /\ last'.ret = bp
           /\ GET_ALLOC(mem', HDRP(bp)) = 1
           /\ GET_SIZE(mem', HDRP(bp)) >= asize

\* C4: for every adjusted size and every reachable tree (equal sizes
\* included), the best-fit query returns a free block of the least size
\* >= asize and NULL only when no free block is large enough; allocate places
\* the request in that block whenever the query succeeds.
C4_BestFit ==
    /\ [](\A asize \in ProbeSizes(St) : BestFitCorrect(St, asize))
    /\ [][PlacedInBestFit]_vars

\* A tree of at least four nodes, two of them of equal size with the second
\* in the left subtree of the first, out of which allocate just took the
\* best fit.
C4_Witness ==
    /\ "fit" \in last.ev
    /\ Len(TreeNodes(St)) >= 4
    /\ \E x, y \in SeqRange(TreeNodes(St)) :
           /\ x # y
           /\ SIZE_OF(St, x) = SIZE_OF(St, y)
           /\ y \in SeqRange(TreeSeq(St, LEFT(St, x), Len(Blocks(St))))

(***************************************************************************)
(* C5 .. C10: sizes, refusal, reallocate and the allocate/free round trip  *)
(***************************************************************************)

\* a is max(MINBLOCKSIZE, n + 8 rounded up to a multiple of 8), computed
\* without wrap-around (a, a block size, is below 2^31).
IsExactAdjusted(n, a) ==
    /\ U32LeInt(n, 2147483632)
    /\ a = MAX(DSIZE * ((U32Val(n) + DSIZE + (DSIZE - 1)) \div DSIZE), MINBLOCKSIZE)

\* C5: for every request n in 1 .. 2^32-1 the adjusted size used by allocate
\* and reallocate is max(MINBLOCKSIZE, round_up_to_8(n + 8)) without
\* wrap-around, so every block handed to the caller has total size >= n + 8
\* and payload capacity >= n.
C5_AdjustedSize ==
    /\ (last.op \in {"malloc", "realloc"} /\ last.size # U32(0)) =>
           IsExactAdjusted(last.size, AdjustedSize(last.size))
    /\ \A p \in DOMAIN live : U32LeInt(live[p], SIZE_OF(St, p) - OVERHEAD)

\* C6: allocate(SIZE_MAX) returns NULL and leaves the heap, the tree and the
\* provider's break unchanged.
C6_SizeMaxRefused ==
    [][(last'.op = "malloc" /\ last'.size = SIZE_MAX) =>
           /\ last'.ret = NULL
           /\ UNCHANGED <<mem, root, mem_brk>>]_vars

\* Freeing the live block p in state s completes and keeps the structure:
\* the tree is the set of free blocks and red-black, p's bytes are free, and
\* no adjacent free blocks appear where there were none.
FreeKeepsInvariants(s, p) ==
    LET f == mm_free(s, p)
    IN /\ TreeIsFreeSet(f)
       /\ RedBlack(f)
       /\ p \notin AllocBlocks(f)
       /\ FreeBytes(f) = FreeBytes(s) + SIZE_OF(s, p)
       /\ NoAdjacentFree(s) => NoAdjacentFree(f)

\* C7: when the provider refuses to extend the heap during allocate, or
\* during the allocate-copy-free fallback of reallocate, the operation
\* returns NULL and memory, the tree and the root are as before the call (the
\* old block stays allocated); the tree invariants hold and a later free of
\* any live block completes and preserves them.
C7_RefusalLeavesHeap ==
    [][("refused" \in last'.ev /\ last'.op \in {"malloc", "realloc"}) =>
           /\ last'.ret = NULL
           /\ UNCHANGED <<mem, root, heap_listp, mem_brk, live>>
           /\ TreeIsFreeSet(St)
           /\ RedBlack(St)
           /\ \A p \in DOMAIN live : FreeKeepsInvariants(St, p)]_vars

\* A reallocate of a live block whose fallback allocation the provider
\* refused, while a second live block exists to be freed afterwards.
C7_Witness ==
    /\ "refused" \in last.ev
    /\ "move" \in last.ev
    /\ last.op = "realloc"
    /\ last.ret = NULL
    /\ last.ptr \in DOMAIN live
    /\ last.ptr \in AllocBlocks(St)
    /\ Cardinality(DOMAIN live) >= 2

\* Offset i lies within the first n bytes.
Within(i, n) == ~U32LeInt(n, i)

\* C8: for every live p with requested size old_n and every n for which
\* q = reallocate(p, n) is not NULL, the first min(n, old_n) payload bytes at
\* q equal the bytes that were at p before the call, on all three paths.
C8_ContentPreserved ==
    [][(last'.op = "realloc" /\ last'.ptr \in DOMAIN live
            /\ last'.size # U32(0) /\ last'.ret # NULL) =>
           \A a \in DOMAIN mem :
               (a >= last'.ptr /\ Within(a - last'.ptr, last'.size)
                    /\ Within(a - last'.ptr, live[last'.ptr])) =>
                   /\ (a - last'.ptr + last'.ret) \in DOMAIN mem'
                   /\ mem'[a - last'.ptr + last'.ret] = mem[a]]_vars

\* C9 as stated: for every live p and every n <= the payload size of p's
\* block (block size minus 8), reallocate(p, n) returns p.
C9_ReallocIdentityAnyN ==
    [][(last'.op = "realloc" /\ last'.ptr \in DOMAIN live
            /\ U32LeInt(last'.size, SIZE_OF(St, last'.ptr) - OVERHEAD)) =>
           last'.ret = last'.ptr]_vars

\* C9, amended: for every live p and every n with 1 <= n <= the payload size
\* of p's block, reallocate(p, n) returns p: the block is not moved.
C9_ReallocIdentity ==
    [][(last'.op = "realloc" /\ last'.ptr \in DOMAIN live
            /\ last'.size # U32(0)
            /\ U32LeInt(last'.size, SIZE_OF(St, last'.ptr) - OVERHEAD)) =>
           last'.ret = last'.ptr]_vars

\* A reallocate to exactly the payload size of a block whose neighbour is
\* allocated returned the same pointer.
C9_Witness ==
    /\ last.op = "realloc"
    /\ last.ptr # NULL
    /\ last.ret = last.ptr
    /\ last.size = U32(SIZE_OF(St, last.ptr) - OVERHEAD)
    /\ "shrink_keep" \in last.ev
    /\ ~IsFree(St, NEXT_BLKP(mem, last.ptr))
    /\ SIZE_OF(St, NEXT_BLKP(mem, last.ptr)) > 0

\* C10 as stated: the pair p = allocate(n); free(p) leaves the same total
\* number of free bytes as before the pair, whether allocate was served from
\* the tree or had to extend the heap.
C10_RoundTripSameBytes == last.pair => FreeBytes(St) = last.fb

\* C10, amended: the pair p = allocate(n); free(p) leaves the total number of
\* free bytes of before the pair plus the bytes by which allocate extended
\* the heap (none when it was served from the tree).
C10_RoundTrip == last.pair => FreeBytes(St) = last.fb + (mem_brk - last.brk)

\* A pair whose allocate had to extend the heap.
C10_Witness ==
    /\ last.pair
    /\ mem_brk > last.brk
    /\ FreeBytes(St) = last.fb + (mem_brk - last.brk)

(***************************************************************************)
(* C11 .. C13: boundary tags, the block chain and block sizes              *)
(***************************************************************************)
HeaderEqualsFooter(s) ==
    \A b \in SeqRange(Blocks(s)) : GET(s.mem, HDRP(b)) = GET(s.mem, FTRP(s.mem, b))

\* C11: after every public operation, every block met by the walk from the
\* prologue to the epilogue has a footer word equal to its header word (same
\* size, same allocated bit), allocated and free blocks alike.
C11_HeaderEqualsFooter == HeaderEqualsFooter(St)

\* A free that merged its block with both neighbours, leaving several blocks
\* of both kinds whose tags agree.
C11_Witness ==
    /\ "coalesce_both" \in last.ev
    /\ AllocBlocks(St) # {}
    /\ FreeBlocks(St) # {}
    /\ HeaderEqualsFooter(St)

\* The address just past the last block of the walk: where the walk stopped.
WalkEnd(s) == FirstBlock(s) + SumSizes(s, SeqRange(Blocks(s)))

\* The walk from the prologue ends at the epilogue header, a word of size 0
\* with the allocated bit, in the last word obtained from the provider.
EndsAtEpilogue(s) ==
    /\ GET(s.mem, HDRP(s.heap_listp)) = PACK(DSIZE, 1)
    /\ HDRP(WalkEnd(s)) = s.mem_brk - WSIZE
    /\ GET(s.mem, HDRP(WalkEnd(s))) = PACK(0, 1)
    /\ SumSizes(s, SeqRange(Blocks(s))) = (s.mem_brk - mem_start_brk) - 4 * WSIZE

\* C12: after every public operation, the walk by next_block from the
\* prologue is a finite chain that ends exactly at the epilogue header (size
\* 0, allocated) in the last word obtained from the provider; the block sizes
\* sum to the bytes obtained minus the 16 bytes of pad, prologue and
\* epilogue, also after each heap extension.
C12_EndsAtEpilogue == EndsAtEpilogue(St)

\* An operation that extended the heap after the initial chunk, leaving the
\* epilogue at the new end.
C12_Witness ==
    /\ "extended" \in last.ev
    /\ last.op \in {"malloc", "realloc"}
    /\ mem_brk = mem_max_addr
    /\ Len(Blocks(St)) >= 2
    /\ EndsAtEpilogue(St)

BlockSizesLegal(s) ==
    \A b \in SeqRange(Blocks(s)) : SIZE_OF(s, b) % DSIZE = 0 /\ SIZE_OF(s, b) >= MINBLOCKSIZE

\* C13: after every public operation, every block between the prologue and
\* the epilogue (allocated or free, split remainders and blocks made by heap
\* extension included) has a size that is a multiple of 8 and at least 48.
C13_BlockSizesLegal == BlockSizesLegal(St)

\* A state with a block of the minimum size, a split remainder and a block
\* made by heap extension.
C13_Witness ==
    /\ \E b \in AllocBlocks(St) : SIZE_OF(St, b) = MINBLOCKSIZE
    /\ {"place_split", "extended"} \subseteq last.ev
    /\ BlockSizesLegal(St)

(***************************************************************************)
(* C14, C15: the scenarios of the specification                            *)
(***************************************************************************)

\* The calls made so far are: allocate 200, 100 and 300 bytes, free the
\* three blocks in the order 200, 300, 100, then allocate 90 bytes.
BestFitScenario ==
    /\ Len(trace) = 7
    /\ trace[1].op = "malloc" /\ trace[1].size = U32(200) /\ trace[1].ret # NULL
    /\ trace[2].op = "malloc" /\ trace[2].size = U32(100) /\ trace[2].ret # NULL
    /\ trace[3].op = "malloc" /\ trace[3].size = U32(300) /\ trace[3].ret # NULL
    /\ trace[4].op = "free" /\ trace[4].ptr = trace[1].ret
    /\ trace[5].op = "free" /\ trace[5].ptr = trace[3].ret
    /\ trace[6].op = "free" /\ trace[6].ptr = trace[2].ret
    /\ trace[7].op = "malloc" /\ trace[7].size = U32(90)

\* C14 as stated: after a fresh init, allocating 200, 100 and 300 bytes,
\* freeing the blocks in the order 200, 300, 100 and allocating 90 bytes
\* returns the payload address of the block that held the 100 bytes.
C14_ServedFromHundred == BestFitScenario => trace[7].ret = trace[2].ret

\* C14, amended: after the same calls, allocate(90) returns the payload
\* address of the block that held the 200 bytes: the three frees have merged
\* the three blocks and the remainder into one free block of CHUNKSIZE bytes,
\* which begins there.
C14_ServedFromMerged ==
    BestFitScenario =>
        /\ trace[7].ret = trace[1].ret
        /\ "coalesce_both" \in trace[6].ev
        /\ trace[7].ret # trace[2].ret

\* The scenario has run to its end and allocate(90) got the first address.
C14_Witness ==
    /\ BestFitScenario
    /\ last.op = "malloc"
    /\ last.ret = trace[1].ret
    /\ last.ret \in AllocBlocks(St)

\* The heap is one free block that covers all bytes between the prologue and
\* the epilogue, and the tree is that one node.
OneFreeBlock(s) ==
    /\ Blocks(s) = <<FirstBlock(s)>>
    /\ IsFree(s, FirstBlock(s))
    /\ SIZE_OF(s, FirstBlock(s)) = (s.mem_brk - mem_start_brk) - 4 * WSIZE
    /\ TreeNodes(s) = <<FirstBlock(s)>>
    /\ (s.mem_brk = mem_start_brk + 4 * WSIZE + CHUNKSIZE) => SIZE_OF(s, FirstBlock(s)) = CHUNKSIZE

\* C15: after a fresh init, in every state reached by allocate and free
\* calls only in which no allocated block remains, the heap holds exactly one
\* free block covering all bytes between prologue and epilogue and the tree
\* holds exactly that node; if the heap was never extended, that block has
\* size CHUNKSIZE.
C15_AllFreedOneBlock == (AllocBlocks(St) = {}) => OneFreeBlock(St)

\* Three blocks were allocated, one of them by extending the heap, and all
\* were freed, the last free merging on both sides.
C15_Witness ==
    /\ Len(trace) >= 6
    /\ live = << >>
    /\ AllocBlocks(St) = {}
    /\ last.op = "free"
    /\ "coalesce_both" \in last.ev
    /\ mem_brk > mem_start_brk + 4 * WSIZE + CHUNKSIZE
    /\ OneFreeBlock(St)

(***************************************************************************)
(* C16: reallocate grows in place                                          *)
(***************************************************************************)

\* In state s, reallocate(p, n) needs more than the block at p has, and the
\* physically next block is free and large enough together with it.
CanAbsorb(s, p, n) ==
    /\ n # U32(0)
    /\ AdjustedSize(n) > SIZE_OF(s, p)
    /\ IsFree(s, NEXT_BLKP(s.mem, p))
    /\ SIZE_OF(s, p) + SIZE_OF(s, NEXT_BLKP(s.mem, p)) >= AdjustedSize(n)

\* The outcome t of absorbing the next block of p in state s for asize bytes.
Absorbed(s, t, p, asize) ==
    LET next_bp == NEXT_BLKP(s.mem, p)
        combined == SIZE_OF(s, p) + SIZE_OF(s, next_bp)
    IN /\ ~IsFree(t, p)
       /\ SIZE_OF(t, p) >= asize
       /\ next_bp \notin SeqRange(TreeNodes(t))
       /\ next_bp \notin SeqRange(Blocks(t))
       /\ IF combined - asize >= MINBLOCKSIZE
          THEN /\ SIZE_OF(t, p) = asize
               /\ IsFree(t, p + asize)
               /\ SIZE_OF(t, p + asize) = combined - asize
               /\ (p + asize) \in SeqRange(TreeNodes(t))
               /\ SeqRange(TreeNodes(t)) =
                      (SeqRange(TreeNodes(s)) \ {next_bp}) \cup {p + asize}
          ELSE /\ SIZE_OF(t, p) = combined
               /\ SeqRange(TreeNodes(t)) = SeqRange(TreeNodes(s)) \ {next_bp}

\* C16: when reallocate(p, n) needs asize greater than the current block
\* size and the physically next block is free with current_size + next_size
\* >= asize, it returns p; afterwards the block at p is allocated with size
\* >= asize, the absorbed block is no longer a tree node, and a remainder is
\* split off as a free block in the tree exactly when the combined size minus
\* asize is >= 48.
C16_GrowsInPlace ==
    [][(last'.op = "realloc" /\ last'.ptr \in DOMAIN live
            /\ CanAbsorb(St, last'.ptr, last'.size)) =>
           /\ last'.ret = last'.ptr
           /\ Absorbed(St, [St EXCEPT !.mem = mem', !.root = root'],
                       last'.ptr, AdjustedSize(last'.size))]_vars

\* A reallocate that absorbed the next block and split a remainder off,
\* which is now a tree node behind the grown block.
C16_Witness ==
    /\ last.op = "realloc"
    /\ {"absorb", "absorb_split"} \subseteq last.ev
    /\ last.ret = last.ptr
    /\ last.ret \in AllocBlocks(St)
    /\ SIZE_OF(St, last.ret) = AdjustedSize(last.size)
    /\ NEXT_BLKP(mem, last.ret) \in SeqRange(TreeNodes(St))

(***************************************************************************)
(* C17: the order of index updates and tag writes inside an operation      *)
(***************************************************************************)

\* The marks left in last.ev by a header write or an insert out of order.
OrderMarks == {"stale_key", "absorbed_node", "insert_unfinished"}

\* The key of every tree node, the size it was inserted with, is the size
\* in its header: every node is a free block of the walk and the tree is
\* ordered by the header sizes.
RECURSIVE KeysOrdered(_, _, _, _, _)
KeysOrdered(s, node, lo, hi, fuel) ==
    \/ node = NIL
    \/ /\ fuel > 0
       /\ lo <= SIZE_OF(s, node)
       /\ SIZE_OF(s, node) <= hi
       /\ KeysOrdered(s, LEFT(s, node), lo, SIZE_OF(s, node), fuel - 1)
       /\ KeysOrdered(s, RIGHT(s, node), SIZE_OF(s, node), hi, fuel - 1)

\* C17: at every step inside coalesce, place and in-place reallocate, no
\* block that is a tree node has its header size rewritten: a block leaves
\* the tree before its size changes or before a neighbour absorbs it, and a
\* block is inserted only after its final header and footer are written, so
\* the key of every tree node equals the size in its header.
C17_RemoveBeforeResize ==
    /\ last.ev \cap OrderMarks = {}
    /\ KeysOrdered(St, root, 0, mem_brk, MaxNodes(St))

\* A free that merged with both neighbours: two nodes left the tree, the
\* tags of the merged block were written and the block, which begins where
\* the previous block began, was inserted, in this order.
C17_Witness ==
    /\ last.op = "free"
    /\ "coalesce_both" \in last.ev
    /\ last.ev \cap OrderMarks = {}
    /\ TreeNodes(St) = <<PREV_BLKP(mem, last.ptr)>>
    /\ AllocBlocks(St) # {}
    /\ KeysOrdered(St, root, 0, mem_brk, MaxNodes(St))

(***************************************************************************)
(* C18 .. C20: the NIL sentinel and the order of the tree                  *)
(***************************************************************************)

\* NIL is a BLACK leaf: its colour is BLACK and its children are NIL.
NilIsBlackLeaf(s) ==
    /\ LEFT(s, NIL) = NIL
    /\ RIGHT(s, NIL) = NIL
    /\ COLOR(s, NIL) = BLACK

\* C18 as stated: in every state between public operations, NIL's parent,
\* left and right all point to NIL itself and its colour is BLACK: a write
\* to NIL's parent by remove or transplant is undone before the operation
\* returns.
C18_NilSelfLinked == PARENT(St, NIL) = NIL /\ NilIsBlackLeaf(St)

\* C18, amended: in every state between public operations, NIL's left and
\* right point to NIL and its colour is BLACK; NIL's parent is NIL after init
\* and afterwards NIL or the payload address inside the heap that remove or
\* transplant last stored there, which is not undone.
C18_NilLeafParentKept ==
    /\ NilIsBlackLeaf(St)
    /\ \/ PARENT(St, NIL) = NIL
       \/ /\ FirstBlock(St) <= PARENT(St, NIL)
          /\ PARENT(St, NIL) < mem_brk
          /\ (PARENT(St, NIL) - FirstBlock(St)) % DSIZE = 0
    /\ last.op = "init" => PARENT(St, NIL) = NIL

\* A removal of a node with two children and a fixup that began at NIL have
\* returned, and NIL's parent still holds a block address.
C18_Witness ==
    /\ {"remove_two_children", "fixup_at_nil"} \subseteq last.ev
    /\ PARENT(St, NIL) # NIL
    /\ PARENT(St, NIL) \in SeqRange(Blocks(St))
    /\ NilIsBlackLeaf(St)

\* The marks left in last.ev by a store that changes NIL's left, right or
\* colour, or by a rotation whose pivot child is NIL.
NilMarks == {"nil_changed", "rotate_nil"}

\* C19: at every step of every operation, the intermediate states of
\* rotations, insert fixup, remove and remove fixup included, NIL's colour is
\* BLACK and NIL's left and right children are NIL: no rotation has NIL as
\* its pivot child, no fixup makes NIL RED, and only the parent field of NIL
\* ever takes another value.
C19_NilStaysBlackLeaf ==
    /\ last.ev \cap NilMarks = {}
    /\ NilIsBlackLeaf(St)

\* An operation that removed a node, ran the remove fixup from NIL and
\* rotated, and left no mark.
C19_Witness ==
    /\ "fixup_at_nil" \in last.ev
    /\ last.ev \cap {"left_rotate", "right_rotate"} # {}
    /\ PARENT(St, NIL) # NIL
    /\ last.ev \cap NilMarks = {}
    /\ NilIsBlackLeaf(St)

\* The sizes of the nodes of the subtree at node.
SubtreeSizes(s, node) == {SIZE_OF(s, n) : n \in SeqRange(TreeSeq(s, node, MaxNodes(s)))}

\* The tree is a binary search tree on block size in the weak sense.
WeakBST(s) ==
    \A x \in SeqRange(TreeNodes(s)) :
        /\ \A k \in SubtreeSizes(s, LEFT(s, x)) : k <= SIZE_OF(s, x)
        /\ \A k \in SubtreeSizes(s, RIGHT(s, x)) : k >= SIZE_OF(s, x)

\* C20: after every public operation the tree is a binary search tree on
\* block size in the weak sense: for every node x, every node of x's left
\* subtree has size <= size(x) and every node of x's right subtree has size
\* >= size(x), also when several free blocks have the same size.
C20_WeakBST == WeakBST(St)

\* A removal of a node with two children left a tree of three nodes or more,
\* two of them of the same size, one in the left subtree of the other.
C20_Witness ==
    /\ "remove_two_children" \in last.ev
    /\ Len(TreeNodes(St)) >= 3
    /\ \E x \in SeqRange(TreeNodes(St)) :
           SIZE_OF(St, x) \in SubtreeSizes(St, LEFT(St, x))
    /\ WeakBST(St)

====
